---------------------------- MODULE Spec2Model ----------------------------
(***************************************************************************)
(* A model of src/server.js: the single user connection record            *)
(* (userRecord), its file user_data.json, the process-wide webhookUrl,    *)
(* and the HTTP handlers of the express app.  Node runs the handlers on   *)
(* one event loop: a handler runs without interruption up to its next     *)
(* await of a remote call or of a file operation, so every action below   *)
(* is one such uninterrupted stretch of code.                             *)
(***************************************************************************)
EXTENDS Naturals, Sequences, FiniteSets

(***************************************************************************)
(* Bounds of the model.                                                    *)
(***************************************************************************)
\* Number of HTTP requests that can be open at the same time.
NumReqs == 2

Reqs == 1..NumReqs

\* Access tokens the remote exchange can return (opaque strings).
Tokens == {"tokA", "tokBB"}

\* JavaScript null as the value of a field of the record, and as the value
\* getUserRecord returns in place of a record.
Null == "null"

NullRecord == [null |-> TRUE]

FIELD_ACCESS_TOKEN == "accessToken"

FIELD_USER_STATUS == "userStatus"

\* The webhook URL the process starts with, and the URLs update_webhook
\* can be given.
InitialWebhookUrl == "https://www.example.com/server/plaid_webhook"

NewUrls == {"https://new.example.com/hook"}

VARIABLES
    startup,      \* "loading" until the start-up load has assigned userRecord
    userRecord,   \* the in-memory record (Undefined before the load)
    file,         \* the content of user_data.json
    webhookUrl,   \* the process-wide webhook URL
    req,          \* one record per request slot: the open request's handler
    out           \* the request the last step answered, with its response

vars == <<startup, userRecord, file, webhookUrl, req, out>>

(***************************************************************************)
(* Values.                                                                 *)
(***************************************************************************)
\* The value of the variable userRecord before the start-up load assigns it.
Undefined == [undefined |-> TRUE]

UserRecordOf(tok, status) == [accessToken |-> tok, userStatus |-> status]

DefaultRecord == UserRecordOf(Null, "disconnected")

IsObject(rec) == rec # Undefined

\* Records the program can hold: the default one, or one after an update.
Statuses == {"disconnected", "connected"}

(***************************************************************************)
(* JSON text.  A text is the sequence of the members of one JSON object,   *)
(* each member a pair <<key, value>> where the value is <<"null">> for    *)
(* the literal null and <<"str", s>> for the quoted string s, followed by *)
(* `tail` bytes that a longer, earlier write left behind the object.      *)
(* The text with no members and no tail is the zero-length file.          *)
(***************************************************************************)
JsonValue(v) == IF v = Null THEN <<"null">> ELSE <<"str", v>>

JsonText(members, tail) == [members |-> members, tail |-> tail]

EmptyText == JsonText(<<>>, 0)

JSON_stringify(rec) ==
    JsonText(<< <<FIELD_ACCESS_TOKEN, JsonValue(rec.accessToken)>>,
                <<FIELD_USER_STATUS, JsonValue(rec.userStatus)>> >>, 0)

\* Number of characters of a string the model uses.
StrLen(s) ==
    CASE s = "accessToken"  -> 11
      [] s = "userStatus"   -> 10
      [] s = "disconnected" -> 12
      [] s = "connected"    -> 9
      [] s = "tokA"         -> 4
      [] s = "tokBB"        -> 5
      [] OTHER              -> 6

ValueLen(jv) == IF jv[1] = "null" THEN 4 ELSE StrLen(jv[2]) + 2

RECURSIVE MembersLen(_)
MembersLen(ms) ==
    IF ms = <<>> THEN 0
    ELSE StrLen(Head(ms)[1]) + 3 + ValueLen(Head(ms)[2])
         + (IF Len(ms) > 1 THEN 1 ELSE 0) + MembersLen(Tail(ms))

\* Number of bytes of a text: braces, members, commas, and the tail.
ByteLen(text) ==
    IF text.members = <<>> THEN text.tail
    ELSE 2 + MembersLen(text.members) + text.tail

\* JSON.parse: the object a text denotes, or SyntaxError.
SyntaxError == [error |-> "SyntaxError"]

UnJsonValue(jv) == IF jv[1] = "null" THEN Null ELSE jv[2]

JSON_parse(text) ==
    IF text.tail # 0 \/ Len(text.members) # 2 THEN SyntaxError
    ELSE IF text.members[1][1] # FIELD_ACCESS_TOKEN
            \/ text.members[2][1] # FIELD_USER_STATUS THEN SyntaxError
    ELSE UserRecordOf(UnJsonValue(text.members[1][2]),
                      UnJsonValue(text.members[2][2]))

(***************************************************************************)
(* The file.  ENOENT is the missing file; otherwise the file holds a text. *)
(***************************************************************************)
ENOENT == [error |-> "ENOENT"]

\* An open that does not truncate (flag "r+" in place of "w").
Truncate_Keep(f) == f

\* open(path, "w"): the file is created or truncated to zero length.
Truncate(f) == EmptyText

\* write at offset 0 of an open file: the bytes of `text` replace the first
\* bytes of the file, and bytes beyond them stay.
WriteAtZero(text, f) ==
    IF f = ENOENT \/ ByteLen(f) <= ByteLen(text) THEN text
    ELSE JsonText(text.members, ByteLen(f) - ByteLen(text))

\* getUserRecord without the catch of a parse error.
getUserRecord_Throws(f) ==
    IF f = ENOENT THEN NullRecord ELSE JSON_parse(f)

\* getUserRecord: the parsed file, or null when the file is missing or
\* cannot be parsed.
getUserRecord(f) ==
    IF f = ENOENT THEN NullRecord
    ELSE IF JSON_parse(f) = SyntaxError THEN NullRecord
    ELSE JSON_parse(f)

\* updateUserRecord, line 81: userRecord[key] = val.
AssignField(rec, key, val) == [rec EXCEPT ![key] = val]

(***************************************************************************)
(* Errors and responses.                                                   *)
(***************************************************************************)
NoData == [null |-> TRUE]

\* The nested response data a failed remote call can carry.
NestedData ==
    {[error_code |-> "ITEM_LOGIN_REQUIRED", error_message |-> "login required"]}

NoError == [name |-> "none", data |-> NoData]

\* Reading a property of undefined, or of a missing `error` object.
TypeError == [name |-> "TypeError", data |-> NoData]

\* The error of a failed remote call; data is err.response.data, or NoData
\* when the error carries no response.
RemoteError(data) == [name |-> "AxiosError", data |-> data]

NoResponse == [status |-> 0, body |-> NoData]

\* res.json(body)
Json(body) == [status |-> 200, body |-> body]

OtherError ==
    [error_code |-> "OTHER_ERROR",
     error_message |-> "I got some other message on the server."]

\* errorHandler without the relay of err.response.data.
errorHandler_Generic(err) == [status |-> 500, body |-> OtherError]

errorHandler(err) ==
    IF err.data # NoData THEN [status |-> 500, body |-> err.data]
    ELSE [status |-> 500, body |-> OtherError]

(***************************************************************************)
(* Requests.  A request is a record: its route and body, the remote call   *)
(* it has sent, the token its exchange returned, its two file writes, the  *)
(* error its handler caught and the response it sent; `alone` records that *)
(* no other handler was between its exchange and its answer since this    *)
(* handler's exchange resolved.  A request that                           *)
(* awaits a remote call or a file write occupies a slot of req; the step   *)
(* that answers a request puts it in out and frees its slot, and the next  *)
(* step, Sent, is the response leaving: out is the request answered at     *)
(* this moment, if any.                                                    *)
(***************************************************************************)
NoCall == [op |-> "none", access_token |-> Null, webhook |-> Null]

NoWrite == [st |-> "none", text |-> EmptyText]

NoInput == [none |-> TRUE]

IdleReq ==
    [route |-> "none", pc |-> "idle", input |-> NoInput, sent |-> NoCall,
     token |-> Null, writes |-> <<NoWrite, NoWrite>>, alone |-> TRUE,
     err |-> NoError, res |-> NoResponse]

NoOutput == IdleReq

\* The handler of request q has answered with `res` (after catching `err`).
Answered(q, err, res) ==
    [q EXCEPT !.pc = "responded", !.err = err, !.res = res, !.sent = NoCall]

\* catch (error) { next(error); }
Caught(q, err) == Answered(q, err, errorHandler(err))

\* No response is leaving: handler code runs.
Quiet == out = NoOutput

Begin(route, input) == [IdleReq EXCEPT !.route = route, !.input = input]

\* Slot r is free and no lower slot is: which free slot a new request takes
\* makes no difference, so it takes the first.
Idle(r) == Quiet /\ \A s \in 1..r : (req[s].pc = "idle") <=> (s = r)

InFlight(w) == w.st \in {"open", "write"}

\* The handler q is between the resolution of its exchange and its answer,
\* or has a write in flight.
Updating(q) ==
    q.pc = "update" \/ InFlight(q.writes[1]) \/ InFlight(q.writes[2])

\* The requests `open`, with the request of slot r become q.  Once q is
\* answered it is the output of the step, and its slot is free when none of
\* its writes is in flight.
StepOn(open, r, q) ==
    IF q.pc # "responded"
    THEN /\ req' = [open EXCEPT ![r] = q]
         /\ out' = NoOutput
    ELSE /\ req' = [open EXCEPT ![r] =
               IF InFlight(q.writes[1]) \/ InFlight(q.writes[2])
               THEN [q EXCEPT !.pc = "answered"]
               ELSE IdleReq]
         /\ out' = q

Step(r, q) == StepOn(req, r, q)

\* The open requests once the exchange of slot r has resolved: a handler
\* that is updating the record is no longer alone.
Overlapped(r) ==
    [s \in Reqs |->
        IF s # r /\ Updating(req[s]) THEN [req[s] EXCEPT !.alone = FALSE]
        ELSE req[s]]

(***************************************************************************)
(* Start-up.                                                               *)
(***************************************************************************)
\* What user_data.json can hold when the process starts: nothing, a record an
\* earlier run saved, or what an interrupted or overlapped write left.
SavedRecords == {UserRecordOf("tokA", s) : s \in Statuses}

InitialFiles ==
    {ENOENT, EmptyText}
      \cup {JSON_stringify(rec) : rec \in SavedRecords}
      \cup {JsonText(JSON_stringify(rec).members, 3) : rec \in SavedRecords}

Init ==
    /\ startup = "loading"
    /\ userRecord = Undefined
    /\ file \in InitialFiles
    /\ webhookUrl = InitialWebhookUrl
    /\ req = [r \in Reqs |-> IdleReq]
    /\ out = NoOutput

\* The record the start-up code assigns from what getUserRecord returned.
LoadedRecord(loaded) == IF loaded = NullRecord THEN DefaultRecord ELSE loaded

StartupLoad ==
    /\ Quiet
    /\ startup = "loading"
    /\ startup' = "loaded"
    /\ userRecord' = LoadedRecord(getUserRecord(file))
    /\ out' = NoOutput
    /\ UNCHANGED <<file, webhookUrl, req>>

(***************************************************************************)
(* GET /server/get_user_info                                               *)
(***************************************************************************)
\* get_user_info reading the status from user_data.json instead of from the
\* in-memory record.
GetUserInfo_FromFile ==
    /\ Quiet
    /\ out' = Answered(Begin("get_user_info", NoInput), NoError,
                       Json([user_status |->
                                LoadedRecord(getUserRecord(file)).userStatus]))
    /\ UNCHANGED <<startup, userRecord, file, webhookUrl, req>>

GetUserInfo ==
    /\ Quiet
    /\ out' = IF IsObject(userRecord)
              THEN Answered(Begin("get_user_info", NoInput), NoError,
                            Json([user_status |-> userRecord.userStatus]))
              ELSE Caught(Begin("get_user_info", NoInput), TypeError)
    /\ UNCHANGED <<startup, userRecord, file, webhookUrl, req>>

(***************************************************************************)
(* Handlers that make one remote call and relay its result.                *)
(***************************************************************************)
\* The request a handler sends to the remote API.
Call(op, access_token, webhook) ==
    [op |-> op, access_token |-> access_token, webhook |-> webhook]

\* The handler of `route` has sent `call` and awaits the remote API.
Awaiting(route, input, call) ==
    [Begin(route, input) EXCEPT !.pc = "remote", !.sent = call]

\* basicLinkTokenObject.webhook: the value webhookUrl has when the module is
\* loaded.
basicLinkTokenObject == [webhook |-> InitialWebhookUrl]

GenerateLinkToken(r) ==
    /\ Idle(r)
    /\ Step(r, Awaiting("generate_link_token", NoInput,
                        Call("linkTokenCreate", Null,
                             basicLinkTokenObject.webhook)))
    /\ UNCHANGED <<startup, userRecord, file, webhookUrl>>

\* A handler that reads userRecord[FIELD_ACCESS_TOKEN] and passes it to the
\* remote operation `op`; reading a field of undefined throws.
CallWithAccessToken(r, route, input, op, webhook) ==
    Step(r, IF IsObject(userRecord)
            THEN Awaiting(route, input,
                          Call(op, userRecord.accessToken, webhook))
            ELSE Caught(Begin(route, input), TypeError))

Transactions(r) ==
    /\ Idle(r)
    /\ CallWithAccessToken(r, "transactions", NoInput, "transactionsGet", Null)
    /\ UNCHANGED <<startup, userRecord, file, webhookUrl>>

Balances(r) ==
    /\ Idle(r)
    /\ CallWithAccessToken(r, "balances", NoInput, "accountsBalanceGet", Null)
    /\ UNCHANGED <<startup, userRecord, file, webhookUrl>>

CreateAssetReport(r) ==
    /\ Idle(r)
    /\ CallWithAccessToken(r, "create_asset_report", NoInput,
                           "assetReportCreate", webhookUrl)
    /\ UNCHANGED <<startup, userRecord, file, webhookUrl>>

FireTestWebhook(r) ==
    /\ Idle(r)
    /\ CallWithAccessToken(r, "fire_test_webhook", NoInput,
                           "sandboxItemFireWebhook", Null)
    /\ UNCHANGED <<startup, userRecord, file, webhookUrl>>

UpdateWebhook(r, newUrl) ==
    /\ Idle(r)
    /\ webhookUrl' = newUrl
    /\ CallWithAccessToken(r, "update_webhook", [newUrl |-> newUrl],
                           "itemWebhookUpdate", newUrl)
    /\ UNCHANGED <<startup, userRecord, file>>

RelayRoutes ==
    {"generate_link_token", "transactions", "balances", "create_asset_report",
     "fire_test_webhook", "update_webhook"}

\* The remote call resolves: res.json(response.data).
RemoteOk(r) ==
    /\ Quiet
    /\ req[r].pc = "remote"
    /\ req[r].route \in RelayRoutes
    /\ Step(r, Answered(req[r], NoError, Json([data |-> req[r].sent.op])))
    /\ UNCHANGED <<startup, userRecord, file, webhookUrl>>

\* A catch that logs the error and does not call next(error): the request
\* is left without a response.
RemoteFail_NoNext(r, data) ==
    /\ Quiet
    /\ req[r].pc = "remote"
    /\ req[r].route \in RelayRoutes
    /\ Step(r, [req[r] EXCEPT !.pc = "caught", !.err = RemoteError(data)])
    /\ UNCHANGED <<startup, userRecord, file, webhookUrl>>

\* The remote call rejects: catch (error) { next(error); }.
RemoteFail(r, data) ==
    /\ Quiet
    /\ req[r].pc = "remote"
    /\ req[r].route \in RelayRoutes
    /\ Step(r, Caught(req[r], RemoteError(data)))
    /\ UNCHANGED <<startup, userRecord, file, webhookUrl>>

(***************************************************************************)
(* updateUserRecord and POST /server/swap_public_token                     *)
(***************************************************************************)
\* fs.writeFile(USER_DATA_FILE, dataToWrite, ...) has been called and its
\* open is pending.
IssuedWrite(text) == [st |-> "open", text |-> text]

\* updateUserRecord with the serialisation taken before the assignment.
updateUserRecord_StaleText(q, k, rec) ==
    [q EXCEPT !.pc = "update",
              !.writes[k] = IssuedWrite(JSON_stringify(userRecord))]

\* updateUserRecord serialising the assigned field only.
updateUserRecord_OnlyField(q, k, rec) ==
    [q EXCEPT !.pc = "update",
              !.writes[k] = IssuedWrite(
                  JsonText(<<JSON_stringify(rec).members[k]>>, 0))]

\* The synchronous part of updateUserRecord(key, val) in the handler q: the
\* assignment has made the in-memory record rec, and fs.writeFile is called
\* with its serialisation as the k-th write of q, which q awaits.
updateUserRecord(q, k, rec) ==
    [q EXCEPT !.pc = "update", !.writes[k] = IssuedWrite(JSON_stringify(rec))]

SwapPublicToken(r) ==
    /\ Idle(r)
    /\ Step(r, Awaiting("swap_public_token", NoInput,
                        Call("itemPublicTokenExchange", Null, Null)))
    /\ UNCHANGED <<startup, userRecord, file, webhookUrl>>

\* The handler without the await of its first updateUserRecord: both updates
\* run, and both writes are issued, when the exchange resolves.
ExchangeOk_NoAwait(r, tok) ==
    /\ Quiet
    /\ req[r].pc = "remote"
    /\ req[r].route = "swap_public_token"
    /\ IsObject(userRecord)
    /\ LET first == AssignField(userRecord, FIELD_ACCESS_TOKEN, tok) IN
         /\ userRecord' = AssignField(first, FIELD_USER_STATUS, "connected")
         /\ Step(r, updateUserRecord(
                        updateUserRecord([req[r] EXCEPT !.token = tok], 1, first),
                        2, userRecord'))
    /\ UNCHANGED <<startup, file, webhookUrl>>

\* The exchange resolves with access_token tok: the handler calls
\* updateUserRecord(FIELD_ACCESS_TOKEN, tok), which throws when userRecord is
\* still undefined, and awaits it.
ExchangeOk(r, tok) ==
    /\ Quiet
    /\ req[r].pc = "remote"
    /\ req[r].route = "swap_public_token"
    /\ IF IsObject(userRecord)
       THEN /\ userRecord' = AssignField(userRecord, FIELD_ACCESS_TOKEN, tok)
            /\ StepOn(Overlapped(r), r,
                      updateUserRecord(
                          [req[r] EXCEPT !.token = tok,
                              !.alone = \A s \in Reqs \ {r} : ~Updating(req[s])],
                          1, userRecord'))
       ELSE /\ userRecord' = userRecord
            /\ Step(r, Caught([req[r] EXCEPT !.token = tok], TypeError))
    /\ UNCHANGED <<startup, file, webhookUrl>>

\* The handler clearing the record when the exchange fails.
ExchangeFail_Disconnects(r, data) ==
    /\ Quiet
    /\ req[r].pc = "remote"
    /\ req[r].route = "swap_public_token"
    /\ userRecord' = IF IsObject(userRecord) THEN DefaultRecord ELSE userRecord
    /\ Step(r, Caught(req[r], RemoteError(data)))
    /\ UNCHANGED <<startup, file, webhookUrl>>

ExchangeFail(r, data) ==
    /\ Quiet
    /\ req[r].pc = "remote"
    /\ req[r].route = "swap_public_token"
    /\ Step(r, Caught(req[r], RemoteError(data)))
    /\ UNCHANGED <<startup, userRecord, file, webhookUrl>>

\* The write the handler q awaits, or 0.
AwaitedWrite(q) ==
    IF q.pc # "update" THEN 0
    ELSE IF q.writes[2].st # "none" THEN 2
    ELSE 1

\* updateUserRecord undoing its assignment when the write fails.
Settled_Rollback(r, k, st) ==
    LET q == [req[r] EXCEPT !.writes[k].st = st]
        kept == IF st = "ok" THEN userRecord
                ELSE IF k = 1 THEN AssignField(userRecord, FIELD_ACCESS_TOKEN, Null)
                ELSE AssignField(userRecord, FIELD_USER_STATUS, "disconnected")
    IN
    IF k = 1
    THEN /\ userRecord' = AssignField(kept, FIELD_USER_STATUS, "connected")
         /\ Step(r, updateUserRecord(q, 2, userRecord'))
    ELSE /\ userRecord' = kept
         /\ Step(r, Answered(q, NoError, Json([status |-> "success"])))

\* updateUserRecord without its catch: a failed write rejects the await and
\* the handler's catch answers through errorHandler.
Settled_Rethrow(r, k, st) ==
    LET q == [req[r] EXCEPT !.writes[k].st = st] IN
    IF st = "failed"
    THEN /\ userRecord' = userRecord
         /\ Step(r, Caught(q, [name |-> "Error", data |-> NoData]))
    ELSE IF k = 1
    THEN /\ userRecord' = AssignField(userRecord, FIELD_USER_STATUS, "connected")
         /\ Step(r, updateUserRecord(q, 2, userRecord'))
    ELSE /\ userRecord' = userRecord
         /\ Step(r, Answered(q, NoError, Json([status |-> "success"])))

\* The k-th write of slot r has settled with state st ("ok" or "failed"; a
\* failure is caught and logged inside updateUserRecord).  If the handler
\* awaits it, the handler goes on: after the first update it calls
\* updateUserRecord(FIELD_USER_STATUS, "connected"), after the second it
\* answers { status: "success" }.
Settled(r, k, st) ==
    LET q == [req[r] EXCEPT !.writes[k].st = st] IN
    IF AwaitedWrite(req[r]) # k
    THEN /\ userRecord' = userRecord
         /\ req' = [req EXCEPT ![r] =
               IF q.pc = "answered" /\ ~InFlight(q.writes[1])
                                    /\ ~InFlight(q.writes[2])
               THEN IdleReq ELSE q]
         /\ out' = NoOutput
    ELSE IF k = 1
    THEN /\ userRecord' = AssignField(userRecord, FIELD_USER_STATUS, "connected")
         /\ Step(r, updateUserRecord(q, 2, userRecord'))
    ELSE /\ userRecord' = userRecord
         /\ Step(r, Answered(q, NoError, Json([status |-> "success"])))

\* fs.writeFile, first step: the file is opened for writing, which truncates
\* it; or the open fails and the file is as before.
WriteOpen(r, k, ok) ==
    /\ Quiet
    /\ req[r].writes[k].st = "open"
    /\ IF ok
       THEN /\ file' = Truncate(file)
            /\ Step(r, [req[r] EXCEPT !.writes[k].st = "write"])
            /\ userRecord' = userRecord
       ELSE /\ file' = file
            /\ Settled(r, k, "failed")
    /\ UNCHANGED <<startup, webhookUrl>>

\* fs.writeFile, second step: the text is written at the start of the opened
\* file and the promise resolves; or the write fails and the promise rejects.
WriteData(r, k, ok) ==
    /\ Quiet
    /\ req[r].writes[k].st = "write"
    /\ file' = IF ok THEN WriteAtZero(req[r].writes[k].text, file) ELSE file
    /\ Settled(r, k, IF ok THEN "ok" ELSE "failed")
    /\ UNCHANGED <<startup, webhookUrl>>

(***************************************************************************)
(* POST /server/receive_webhook                                            *)
(***************************************************************************)
ItemCodes ==
    {"ERROR", "NEW_ACCOUNTS_AVAILABLE", "PENDING_EXPIRATION",
     "USER_PERMISSION_REVOKED", "WEBHOOK_UPDATE_ACKNOWLEDGED"}

TransactionsCodes ==
    {"INITIAL_UPDATE", "HISTORICAL_UPDATE", "DEFAULT_UPDATE",
     "TRANSACTIONS_REMOVED", "SYNC_UPDATES_AVAILABLE"}

AssetsCodes == {"PRODUCT_READY", "ERROR"}

WebhookTypes == {"ITEM", "TRANSACTIONS", "ASSETS", "FOO"}

WebhookCodes == ItemCodes \cup TransactionsCodes \cup AssetsCodes \cup {"BAR"}

\* The codes the handler of a webhook type has a case for.
RecognisedCodes(type) ==
    CASE type = "ITEM" -> ItemCodes
      [] type = "TRANSACTIONS" -> TransactionsCodes
      [] type = "ASSETS" -> AssetsCodes
      [] OTHER -> {}

\* A webhook body: its type and code, and whether it has an `error` object.
\* Each type comes with the codes its handler knows, with ERROR and with an
\* unknown code; the `error` object comes with ERROR only.
WebhookBodies ==
    {b \in [webhook_type : WebhookTypes, webhook_code : WebhookCodes,
            has_error : BOOLEAN] :
        /\ b.webhook_code \in RecognisedCodes(b.webhook_type) \cup {"ERROR", "BAR"}
        /\ b.has_error => b.webhook_code = "ERROR"}

\* What a webhook handler leaves: whether it threw, and the record.
Handled(threw, rec) == [threw |-> threw, userRecord |-> rec]

\* handleItemWebhook with the USER_PERMISSION_REVOKED case resetting the record.
handleItemWebhook_Revokes(code, requestBody, rec) ==
    IF code = "ERROR" THEN Handled(~requestBody.has_error, rec)
    ELSE IF code = "USER_PERMISSION_REVOKED" THEN Handled(FALSE, DefaultRecord)
    ELSE Handled(FALSE, rec)

\* Every case only logs; the ERROR case reads requestBody.error.error_message.
handleItemWebhook(code, requestBody, rec) ==
    IF code = "ERROR" THEN Handled(~requestBody.has_error, rec)
    ELSE Handled(FALSE, rec)

\* handleTransactionsWebhook with a default case that throws.
handleTransactionsWebhook_DefaultThrows(code, requestBody, rec) ==
    Handled(code \notin TransactionsCodes, rec)

handleTransactionsWebhook(code, requestBody, rec) == Handled(FALSE, rec)

\* handleAssetsWebhook with the ERROR case resetting the record.
handleAssetsWebhook_ErrorDisconnects(code, requestBody, rec) ==
    IF code = "ERROR" THEN Handled(~requestBody.has_error, DefaultRecord)
    ELSE Handled(FALSE, rec)

handleAssetsWebhook(code, requestBody, rec) ==
    IF code = "ERROR" THEN Handled(~requestBody.has_error, rec)
    ELSE Handled(FALSE, rec)

\* switch (product)
Dispatch(body, rec) ==
    CASE body.webhook_type = "ITEM" ->
             handleItemWebhook(body.webhook_code, body, rec)
      [] body.webhook_type = "TRANSACTIONS" ->
             handleTransactionsWebhook(body.webhook_code, body, rec)
      [] body.webhook_type = "ASSETS" ->
             handleAssetsWebhook(body.webhook_code, body, rec)
      [] OTHER -> Handled(FALSE, rec)

ReceiveWebhook(body) ==
    LET h == Dispatch(body, userRecord) IN
      /\ Quiet
      /\ userRecord' = h.userRecord
      /\ out' = IF h.threw
                THEN Caught(Begin("receive_webhook", body), TypeError)
                ELSE Answered(Begin("receive_webhook", body), NoError,
                              Json([status |-> "received"]))
      /\ UNCHANGED <<startup, file, webhookUrl, req>>

\* The response of the last step has left.
Sent ==
    /\ out # NoOutput
    /\ out' = NoOutput
    /\ UNCHANGED <<startup, userRecord, file, webhookUrl, req>>

Next ==
    \/ Sent
    \/ StartupLoad
    \/ GetUserInfo
    \/ \E r \in Reqs : GenerateLinkToken(r)
    \/ \E r \in Reqs : SwapPublicToken(r)
    \/ \E r \in Reqs : Transactions(r)
    \/ \E r \in Reqs : Balances(r)
    \/ \E r \in Reqs : CreateAssetReport(r)
    \/ \E r \in Reqs : FireTestWebhook(r)
    \/ \E r \in Reqs, u \in NewUrls : UpdateWebhook(r, u)
    \/ \E r \in Reqs : RemoteOk(r)
    \/ \E r \in Reqs, d \in NestedData \cup {NoData} : RemoteFail(r, d)
    \/ \E r \in Reqs, t \in Tokens : ExchangeOk(r, t)
    \/ \E r \in Reqs, d \in NestedData \cup {NoData} : ExchangeFail(r, d)
    \/ \E r \in Reqs, k \in 1..2, ok \in BOOLEAN : WriteOpen(r, k, ok)
    \/ \E r \in Reqs, k \in 1..2, ok \in BOOLEAN : WriteData(r, k, ok)
    \/ \E b \in WebhookBodies : ReceiveWebhook(b)

Spec == Init /\ [][Next]_vars

\* The steps of the program when no file operation fails.
NextWritesSucceed ==
    \/ Sent
    \/ StartupLoad
    \/ GetUserInfo
    \/ \E r \in Reqs : GenerateLinkToken(r)
    \/ \E r \in Reqs : SwapPublicToken(r)
    \/ \E r \in Reqs : Transactions(r)
    \/ \E r \in Reqs : Balances(r)
    \/ \E r \in Reqs : CreateAssetReport(r)
    \/ \E r \in Reqs : FireTestWebhook(r)
    \/ \E r \in Reqs, u \in NewUrls : UpdateWebhook(r, u)
    \/ \E r \in Reqs : RemoteOk(r)
    \/ \E r \in Reqs, d \in NestedData \cup {NoData} : RemoteFail(r, d)
    \/ \E r \in Reqs, t \in Tokens : ExchangeOk(r, t)
    \/ \E r \in Reqs, d \in NestedData \cup {NoData} : ExchangeFail(r, d)
    \/ \E r \in Reqs, k \in 1..2 : WriteOpen(r, k, TRUE)
    \/ \E r \in Reqs, k \in 1..2 : WriteData(r, k, TRUE)
    \/ \E b \in WebhookBodies : ReceiveWebhook(b)

\* The behaviours in which every file write succeeds.
SpecWritesSucceed == Init /\ [][NextWritesSucceed]_vars

\* The remote call the handler of slot r awaits completes, one way or the
\* other.
RemoteCompletes(r) ==
    \/ RemoteOk(r)
    \/ \E d \in NestedData \cup {NoData} : RemoteFail(r, d)
    \/ \E t \in Tokens : ExchangeOk(r, t)
    \/ \E d \in NestedData \cup {NoData} : ExchangeFail(r, d)

\* A file operation of a write of slot r completes, one way or the other.
WriteCompletes(r) ==
    \E k \in 1..2, ok \in BOOLEAN : WriteOpen(r, k, ok) \/ WriteData(r, k, ok)

\* The webhooks of the behaviours checked for progress: one that throws, one
\* that is acknowledged, and the revocation.  A webhook is answered in the
\* step that receives it, so its body has no part in what a request awaits.
LiveBodies ==
    {b \in WebhookBodies :
        /\ b.webhook_type = "ITEM"
        /\ b.webhook_code \in {"ERROR", "USER_PERMISSION_REVOKED"}}

NextLive ==
    \/ Sent
    \/ StartupLoad
    \/ GetUserInfo
    \/ \E r \in Reqs : GenerateLinkToken(r)
    \/ \E r \in Reqs : SwapPublicToken(r)
    \/ \E r \in Reqs : Transactions(r)
    \/ \E r \in Reqs : Balances(r)
    \/ \E r \in Reqs : CreateAssetReport(r)
    \/ \E r \in Reqs : FireTestWebhook(r)
    \/ \E r \in Reqs, u \in NewUrls : UpdateWebhook(r, u)
    \/ \E r \in Reqs : RemoteOk(r)
    \/ \E r \in Reqs, d \in NestedData \cup {NoData} : RemoteFail(r, d)
    \/ \E r \in Reqs, t \in Tokens : ExchangeOk(r, t)
    \/ \E r \in Reqs, d \in NestedData \cup {NoData} : ExchangeFail(r, d)
    \/ \E r \in Reqs, k \in 1..2, ok \in BOOLEAN : WriteOpen(r, k, ok)
    \/ \E r \in Reqs, k \in 1..2, ok \in BOOLEAN : WriteData(r, k, ok)
    \/ \E b \in LiveBodies : ReceiveWebhook(b)

\* The event loop sends every response a handler has handed to it.
SpecLive == Init /\ [][NextLive]_vars /\ WF_vars(Sent)

(***************************************************************************)
(* The claims.                                                             *)
(***************************************************************************)
Success == Json([status |-> "success"])

Received == Json([status |-> "received"])

\* A swap_public_token request is being answered { status: "success" }.
SwapSuccess == out.route = "swap_public_token" /\ out.res = Success

WriteSettled(w) == w.st \in {"ok", "failed"}

\* C1: in every reachable state of the in-memory record, userStatus is
\* "connected" if and only if accessToken is not null.
C1_ConnectedIffToken ==
    IsObject(userRecord) =>
        ((userRecord.userStatus = "connected") <=> (userRecord.accessToken # Null))

\* C2: every request to receive_webhook is answered { status: "received" },
\* never by the error responder.
C2_WebhookAlwaysReceived ==
    out.route = "receive_webhook" => out.res = Received

Revoked ==
    [webhook_type |-> "ITEM", webhook_code |-> "USER_PERMISSION_REVOKED",
     has_error |-> FALSE]

\* C3: when the webhook ITEM / USER_PERMISSION_REVOKED is received while the
\* record is connected, the record becomes { accessToken: null, userStatus:
\* "disconnected" }.
C3_RevokedDisconnects ==
    [][(/\ IsObject(userRecord)
        /\ userRecord.userStatus = "connected"
        /\ out'.route = "receive_webhook"
        /\ out'.input = Revoked)
       => userRecord' = DefaultRecord]_vars

\* C4, as claimed: whenever a swap_public_token request is answered
\* { status: "success" }, the in-memory record is the token of that request's
\* exchange with "connected", and the file contains exactly that pair.
C4_SuccessIsSaved ==
    SwapSuccess =>
        /\ userRecord = UserRecordOf(out.token, "connected")
        /\ getUserRecord(file) = UserRecordOf(out.token, "connected")

\* C4, amended: whenever a swap_public_token request is answered
\* { status: "success" }, the in-memory record has userStatus "connected" and
\* a token; when no other handler updated the record while this one did, the
\* token is the one of this request's exchange, and when moreover its second
\* write succeeded the file contains exactly that pair.
C4_SuccessIsConnected ==
    SwapSuccess =>
        /\ userRecord.userStatus = "connected"
        /\ userRecord.accessToken \in Tokens
        /\ out.alone => userRecord = UserRecordOf(out.token, "connected")
        /\ (out.alone /\ out.writes[2].st = "ok") =>
               getUserRecord(file) = UserRecordOf(out.token, "connected")

C4_Witness ==
    /\ SwapSuccess
    /\ out.alone
    /\ out.writes[1].st = "failed"
    /\ out.writes[2].st = "ok"
    /\ getUserRecord(file) = UserRecordOf(out.token, "connected")

\* The request of slot r after a step: the output when the step answered it.
Post(r) ==
    IF req[r].pc # "idle" /\ req'[r].pc = "idle" /\ out'.pc = "responded"
    THEN out' ELSE req'[r]

\* The step settles the k-th write of slot r as written, or as failed.
WriteSucceeds(r, k) ==
    req[r].writes[k].st = "write" /\ Post(r).writes[k].st = "ok"

WriteFails(r, k) ==
    InFlight(req[r].writes[k]) /\ Post(r).writes[k].st = "failed"

AllRecords == {UserRecordOf(t, st) : t \in Tokens \cup {Null}, st \in Statuses}

Unparsable(f) == f # ENOENT /\ JSON_parse(f) = SyntaxError

\* C6: at process start, a missing or unparsable file gives the default
\* record { accessToken: null, userStatus: "disconnected" } and no error;
\* a file that holds a saved record gives that record.
C6_LoadOrDefault ==
    [][(startup = "loading" /\ startup' = "loaded") =>
          /\ userRecord' = IF file = ENOENT \/ Unparsable(file)
                           THEN DefaultRecord
                           ELSE JSON_parse(file)
          /\ userRecord' \in AllRecords
          /\ file' = file
          /\ out' = NoOutput]_vars

C6_Witness ==
    /\ startup = "loaded"
    /\ Unparsable(file)
    /\ userRecord = DefaultRecord
    /\ \A r \in Reqs : req[r].pc = "idle"

RemoteRoutes == RelayRoutes \cup {"swap_public_token"}

\* C7: for every handler that calls the remote API, a failed remote call is
\* answered with status 500 and the error's nested response data as the body,
\* or the generic OTHER_ERROR body when the error carries none.
C7_RemoteErrorRelayed ==
    (out.pc = "responded" /\ out.err.name = "AxiosError") =>
        /\ out.route \in RemoteRoutes
        /\ out.res.status = 500
        /\ out.res.body = IF out.err.data \in NestedData THEN out.err.data
                          ELSE OtherError

C7_Witness ==
    /\ out.route = "transactions"
    /\ out.err.data \in NestedData
    /\ out.res = [status |-> 500, body |-> out.err.data]

\* C8: within one swap_public_token handler the write that persists
\* accessToken has completed or failed before the write that persists
\* userStatus is started, and both have before the handler answers.
C8_WritesInOrder ==
    /\ \A r \in Reqs :
          req[r].writes[2].st # "none" => WriteSettled(req[r].writes[1])
    /\ SwapSuccess =>
          WriteSettled(out.writes[1]) /\ WriteSettled(out.writes[2])
    /\ out.writes[2].st # "none" => WriteSettled(out.writes[1])

C8_Witness ==
    \E r \in Reqs :
        /\ req[r].writes[1].st = "failed"
        /\ req[r].writes[2].st = "write"

\* C9, as claimed: once the write of updateUserRecord(key, value) has failed,
\* the in-memory record holds value for key from then on.
C9_FailedValueStays ==
    \A r \in Reqs :
        req[r].writes[1].st = "failed" => userRecord.accessToken = req[r].token

\* The step resolves the exchange of some swap_public_token handler.
ExchangeResolves ==
    \E r \in Reqs :
        /\ req[r].pc = "remote"
        /\ req[r].route = "swap_public_token"
        /\ Post(r).token = userRecord'.accessToken

\* C9, amended: a failed write of updateUserRecord does not stop the handler
\* and leaves the in-memory record as assigned; accessToken changes only when
\* a later exchange assigns it, and the next write the handler issues
\* serialises the whole in-memory record.
C9_FailedWriteKeepsMemory ==
    [][/\ \A r \in Reqs, k \in 1..2 :
            WriteFails(r, k) =>
                /\ userRecord'.accessToken = userRecord.accessToken
                /\ userRecord'.userStatus = "connected"
                /\ k = 1 => req'[r].writes[2] =
                                IssuedWrite(JSON_stringify(userRecord'))
                /\ k = 2 => out'.res = Success /\ userRecord' = userRecord
       /\ (IsObject(userRecord)
             /\ userRecord'.accessToken # userRecord.accessToken)
            => ExchangeResolves]_vars

C9_Witness ==
    \E r \in Reqs :
        /\ req[r].writes[1].st = "failed"
        /\ req[r].writes[2] = IssuedWrite(JSON_stringify(userRecord))
        /\ userRecord = UserRecordOf(req[r].token, "connected")

\* C10, as claimed: a failed file write is surfaced to the swap_public_token
\* handler, which does not answer as if persistence had succeeded.
C10_FailureSurfaced ==
    (out.route = "swap_public_token"
       /\ (out.writes[1].st = "failed" \/ out.writes[2].st = "failed"))
      => out.res # Success

\* C10, amended: a failed file write is caught and logged inside
\* updateUserRecord and not surfaced; once its exchange has resolved on a
\* loaded record the handler answers { status: "success" } whether or not
\* its writes failed.
C10_FailureSwallowed ==
    (out.route = "swap_public_token" /\ out.writes[1].st # "none")
      => out.res = Success /\ out.err = NoError

C10_Witness ==
    /\ SwapSuccess
    /\ out.writes[1].st = "ok"
    /\ out.writes[2].st = "failed"

\* The webhook has a type the dispatcher has no case for, or a code the
\* handler of its type has no case for.
Unrecognised(body) ==
    body.webhook_code \notin RecognisedCodes(body.webhook_type)

\* C11: for every webhook of an unrecognised type, or of an unrecognised code
\* within its type, the dispatcher changes neither the in-memory record nor
\* the file nor the webhook URL, raises no error and answers
\* { status: "received" }.
C11_UnrecognisedIsNoOp ==
    [][(out'.route = "receive_webhook" /\ Unrecognised(out'.input)) =>
          /\ userRecord' = userRecord
          /\ file' = file
          /\ webhookUrl' = webhookUrl
          /\ req' = req
          /\ out'.err = NoError
          /\ out'.res = Received]_vars

C11_Witness ==
    /\ out.route = "receive_webhook"
    /\ out.input.webhook_type = "TRANSACTIONS"
    /\ out.input.webhook_code = "ERROR"
    /\ ~out.input.has_error
    /\ out.res = Received
    /\ userRecord = UserRecordOf("tokBB", "connected")

\* The answer of get_user_info on the in-memory record rec.
UserInfo(rec) ==
    IF IsObject(rec) THEN Json([user_status |-> rec.userStatus])
    ELSE [status |-> 500, body |-> OtherError]

\* C12: the output of get_user_info is determined by the in-memory record
\* alone, so two requests with no update of the record between them return
\* the same output; and a get_user_info request changes neither the
\* in-memory record nor the file.
C12_UserInfoIdempotent ==
    [][out'.route = "get_user_info" =>
          /\ out'.res = UserInfo(userRecord)
          /\ userRecord' = userRecord
          /\ file' = file
          /\ req' = req]_vars

C12_Witness ==
    /\ out.route = "get_user_info"
    /\ out.res = Json([user_status |-> "connected"])
    /\ getUserRecord(file) # userRecord
    /\ \E r \in Reqs : InFlight(req[r].writes[2])

\* The record a restart would load from the file f.
RestartRecord(f) == LoadedRecord(getUserRecord(f))

\* C13: the record a restart would load from the file has userStatus
\* "connected" if and only if its accessToken is not null, after every step
\* that changes the file.
C13_FileConnectedIffToken ==
    [][file' # file =>
          ((RestartRecord(file').userStatus = "connected")
             <=> (RestartRecord(file').accessToken # Null))]_vars

\* C14: handling a webhook other than ITEM / USER_PERMISSION_REVOKED leaves
\* the in-memory record and the file as they were, whatever its type and
\* code, also when the handler throws.
C14_WebhookKeepsRecord ==
    [][(out'.route = "receive_webhook" /\ out'.input # Revoked) =>
          /\ userRecord' = userRecord
          /\ file' = file]_vars

C14_Witness ==
    /\ out.route = "receive_webhook"
    /\ out.input.webhook_type = "ASSETS"
    /\ out.input.webhook_code = "ERROR"
    /\ out.input.has_error
    /\ userRecord = UserRecordOf("tokA", "connected")
    /\ getUserRecord(file) = userRecord

\* The step runs an assignment of a swap_public_token handler whose exchange
\* has succeeded: the exchange resolves with a token, or the handler's first
\* write settles and it assigns the status.
AssignedBySwap ==
    \E r \in Reqs :
        /\ req[r].route = "swap_public_token"
        /\ \/ /\ req[r].pc = "remote"
              /\ Post(r).token \in Tokens
              /\ userRecord' = AssignField(userRecord, FIELD_ACCESS_TOKEN,
                                           Post(r).token)
           \/ /\ req[r].token \in Tokens
              /\ AwaitedWrite(req[r]) = 1
              /\ WriteSettled(Post(r).writes[1])
              /\ userRecord' = AssignField(userRecord, FIELD_USER_STATUS,
                                           "connected")

\* C15: when the exchange of swap_public_token fails, the in-memory record
\* and the file are unchanged and the request is answered with a failure;
\* the record, once loaded, changes only in a step of a swap_public_token
\* handler whose exchange succeeded, never in a step of another handler.
C15_OnlyExchangeChangesRecord ==
    [][/\ (out'.route = "swap_public_token" /\ out'.err.name = "AxiosError") =>
            /\ userRecord' = userRecord
            /\ file' = file
            /\ out'.res.status = 500
       /\ (IsObject(userRecord) /\ userRecord' # userRecord) => AssignedBySwap
       /\ \A r \in Reqs :
            (req'[r] # req[r]
               /\ (req[r].route \in RelayRoutes \/ req'[r].route \in RelayRoutes))
              => userRecord' = userRecord
       /\ out'.route \in RelayRoutes \cup {"get_user_info"} =>
            userRecord' = userRecord]_vars

C15_Witness ==
    /\ out.route = "swap_public_token"
    /\ out.err = RemoteError(NoData)
    /\ out.res = [status |-> 500, body |-> OtherError]
    /\ userRecord = UserRecordOf("tokA", "connected")
    /\ getUserRecord(file) = userRecord

\* C16: once the in-memory userStatus is "connected" it stays "connected"
\* and accessToken stays non-null, whatever request or webhook comes,
\* ITEM / USER_PERMISSION_REVOKED included.
C16_ConnectedStays ==
    [][(IsObject(userRecord) /\ userRecord.userStatus = "connected") =>
          /\ userRecord'.userStatus = "connected"
          /\ userRecord'.accessToken # Null]_vars

C16_Witness ==
    /\ out.route = "receive_webhook"
    /\ out.input = Revoked
    /\ out.res = Received
    /\ userRecord = UserRecordOf("tokA", "connected")

\* Every handler has responded and no write is in flight, the last of them a
\* swap_public_token handler answering { status: "success" } at this moment.
AllResponded == SwapSuccess /\ \A r \in Reqs : req[r].pc = "idle"

\* C17, as claimed: in the behaviours where every file write succeeds, once
\* all swap_public_token handlers have responded and no write is in flight,
\* the file holds the in-memory record.
C17_FileEqualsMemory ==
    AllResponded => getUserRecord(file) = userRecord

\* C17, amended: in the behaviours where every file write succeeds, once all
\* handlers have responded and no write is in flight, the file holds the
\* in-memory record when the updates of the handler that answered last
\* overlapped no other handler's.
C17_FileEqualsMemoryAlone ==
    (AllResponded /\ out.alone) =>
        /\ getUserRecord(file) = userRecord
        /\ userRecord = UserRecordOf(out.token, "connected")

C17_Witness ==
    /\ AllResponded
    /\ out.alone
    /\ out.token = "tokBB"
    /\ getUserRecord(file) = UserRecordOf("tokBB", "connected")
    /\ userRecord = UserRecordOf("tokBB", "connected")

\* C18, as claimed: every get_user_info request is answered with user_status
\* "disconnected" or "connected", and every swap_public_token whose exchange
\* succeeds updates the record and is answered { status: "success" }, also
\* before the start-up load has completed.
C18_NeverUninitialised ==
    /\ out.route = "get_user_info" =>
          out.res \in {Json([user_status |-> s]) : s \in Statuses}
    /\ (out.route = "swap_public_token" /\ out.token \in Tokens) =>
          /\ out.res = Success
          /\ IsObject(userRecord)

\* The operations whose request carries a webhook URL.
WebhookOps == {"linkTokenCreate", "assetReportCreate"}

\* C19: every remote call that carries a webhook URL carries the value the
\* process-wide webhook URL has when the call is sent, which is the URL the
\* last update_webhook request set.
C19_CallsCarryCurrentUrl ==
    [][\A r \in Reqs :
          (req[r].pc = "idle" /\ req'[r].sent.op \in WebhookOps) =>
              req'[r].sent.webhook = webhookUrl']_vars

\* The request of slot r is open; it has been answered and its slot is free.
Open(r) == req[r].pc # "idle"

Closed(r) == req[r].pc = "idle"

\* The operations the request of slot r awaits complete whenever they can.
Completes(r) == SF_vars(RemoteCompletes(r)) /\ SF_vars(WriteCompletes(r))

\* C20: a request whose remote call and file operations eventually complete
\* is eventually answered, whether or not the operations of the other open
\* requests ever complete; and every response is a success payload or the
\* 500 of errorHandler for the error the handler caught.
C20_EveryRequestAnswered ==
    /\ \A r \in Reqs : Completes(r) => (Open(r) ~> Closed(r))
    /\ [](out.pc = "responded" =>
            \/ out.err = NoError /\ out.res.status = 200
            \/ out.err # NoError /\ out.res = errorHandler(out.err))

C20_Witness ==
    /\ SwapSuccess
    /\ out.writes[2].st = "ok"
    /\ \E r \in Reqs : req[r].pc = "remote" /\ req[r].route = "balances"

=============================================================================
